---- MODULE Spec2Model ----
(***************************************************************************)
(* Model of the gmail_unsuscribe_mcp package: the header parser, the       *)
(* paginated scans list_subscriptions and search_emails, the aggregation   *)
(* of Subscription records, and the HTTP confirmation of an unsubscribe    *)
(* link (unsubscribe_http, called from the desuscribirse tool).            *)
(*                                                                         *)
(* Python str values are sequences of one-character strings, so that       *)
(* lower(), strip(), startswith() and the regular expressions are computed *)
(* character by character.  The Gmail API and the HTTP transport are the   *)
(* environment: their answers are nondeterministic inputs of the actions.  *)
(***************************************************************************)
EXTENDS Integers, Sequences, FiniteSets, TLC

VARIABLES
    op,               \* the operation this behaviour invokes
    pc,               \* position inside the operation
    max_results,      \* argument of list_subscriptions / search_emails
    processed,        \* local counter of the scan loops
    next_page_token,  \* local: token sent with the next list request (0 is None)
    page,             \* messages of the current response not yet iterated over
    respToken,        \* response.get("nextPageToken") of the current response
    subscriptions,    \* local dict of list_subscriptions, in insertion order
    results,          \* local list of search_emails
    returned,         \* the value the operation returned
    nList,            \* number of messages().list requests issued
    nGet,             \* number of messages().get requests issued
    listed,           \* number of message ids the mailbox has handed out
    lastBatch,        \* maxResults argument of the last list request
    lastReqToken,     \* pageToken argument of the last list request
    carriers,         \* ids of the fetched messages that carried List-Unsubscribe
    emptyPage,        \* a list response without messages has been received
    failed,           \* a messages().list or messages().get call raised
    url,              \* argument of desuscribirse
    httpGets,         \* number of client.get calls issued
    outcome,          \* what the HTTP transport answered
    arrival,          \* SpecOrder: the examined messages, in a first arrival order
    arrivalB,         \* SpecOrder: the same messages in a second arrival order
    subscriptionsB,   \* SpecOrder: the dict built from arrivalB
    arg               \* SpecParse: what the parser is called on

vars == <<op, pc, max_results, processed, next_page_token, page, respToken,
          subscriptions, results, returned, nList, nGet, listed, lastBatch,
          lastReqToken, carriers, emptyPage, failed, url, httpGets,
          outcome, arrival, arrivalB, subscriptionsB, arg>>

scanVars == <<max_results, processed, next_page_token, page, respToken,
              subscriptions, results, nList, nGet, listed, lastBatch,
              lastReqToken, carriers, emptyPage, failed>>

httpVars == <<url, httpGets, outcome>>

parseVars == <<arg>>

orderVars == <<arrival, arrivalB, subscriptionsB>>

----------------------------------------------------------------------------
(* Bounds of the model. *)

\* largest max_results argument tried
MaxMaxResults == 3
\* metadata fetches after which the mailbox is no longer followed
MaxFetch == 3
\* largest number of messages in one list response
MaxPage == 2
\* longest arrival sequence compared in SpecOrder
MaxArrival == 3
MaxFromLen == 6
MaxPieces == 3
MaxLiveResults == 2

----------------------------------------------------------------------------
(* Python str operations, on sequences of characters. *)

\* Python None, for an Optional[str]; no str equals it
None == <<"None">>

UpperLetters ==
    <<"A","B","C","D","E","F","G","H","I","J","K","L","M",
      "N","O","P","Q","R","S","T","U","V","W","X","Y","Z">>

LowerLetters ==
    <<"a","b","c","d","e","f","g","h","i","j","k","l","m",
      "n","o","p","q","r","s","t","u","v","w","x","y","z">>

LowerTable ==
    [c \in {UpperLetters[i] : i \in 1..26} |->
        LowerLetters[CHOOSE i \in 1..26 : UpperLetters[i] = c]]

LowerChar(c) == IF c \in DOMAIN LowerTable THEN LowerTable[c] ELSE c

\* str.lower()
Lower(s) == [i \in 1..Len(s) |-> LowerChar(s[i])]

IsSpace(c) == c \in {" ", "\t"}

\* str.startswith(p)
StartsWith(s, p) == Len(s) >= Len(p) /\ SubSeq(s, 1, Len(p)) = p

\* str.strip(chars): drop every leading and trailing character of the set
StripSet(s, cs) ==
    LET keep == {i \in 1..Len(s) : s[i] \notin cs}
    IN  IF keep = {} THEN <<>>
        ELSE SubSeq(s, CHOOSE i \in keep : \A j \in keep : i <= j,
                       CHOOSE i \in keep : \A j \in keep : i >= j)

\* str.strip()
Strip(s) == StripSet(s, {" ", "\t"})

\* p in s
Contains(s, p) ==
    \E i \in 0..(Len(s) - Len(p)) : SubSeq(s, i + 1, i + Len(p)) = p

----------------------------------------------------------------------------
(* Header names and prefixes used by the code. *)

FromName == <<"f","r","o","m">>
SubjectName == <<"S","u","b","j","e","c","t">>
DateName == <<"D","a","t","e">>
ListUnsubscribeName ==
    <<"L","i","s","t","-","U","n","s","u","b","s","c","r","i","b","e">>

HttpPrefix == <<"h","t","t","p",":","/","/">>
HttpsPrefix == <<"h","t","t","p","s",":","/","/">>
MailtoPrefix == <<"m","a","i","l","t","o",":">>

----------------------------------------------------------------------------
(* Header parser. *)

\* re.findall(r"<([^>]+)>", s) from position i on
RECURSIVE FindAllTokens(_, _)
FindAllTokens(s, i) ==
    LET opens == {p \in i..Len(s) : s[p] = "<"}
    IN  IF opens = {} THEN <<>>
        ELSE LET o == CHOOSE p \in opens : \A q \in opens : p <= q
                 closes == {p \in (o + 1)..Len(s) : s[p] = ">"}
             IN  IF closes = {} THEN <<>>
                 ELSE LET c == CHOOSE p \in closes : \A q \in closes : p <= q
                      IN  IF c = o + 1
                          THEN FindAllTokens(s, o + 1)
                          ELSE <<SubSeq(s, o + 1, c - 1)>> \o FindAllTokens(s, c + 1)

\* mutant: startswith("http://")
IsHttpLinkPlainOnly(match) == StartsWith(match, HttpPrefix)

IsHttpLink(match) == StartsWith(match, HttpPrefix) \/ StartsWith(match, HttpsPrefix)

IsMailto(match) == StartsWith(match, MailtoPrefix)

_parse_unsubscribe_header(header_value) ==
    LET matches == FindAllTokens(header_value, 1)
    IN  [links   |-> SelectSeq(matches, IsHttpLink),
         mailtos |-> SelectSeq(matches, LAMBDA m : ~IsHttpLink(m) /\ IsMailto(m))]

\* first header whose lowercased name equals the lowercased header_name, or 0
HeaderIndex(headers, header_name) ==
    LET hits == {i \in 1..Len(headers) : Lower(headers[i].name) = Lower(header_name)}
    IN  IF hits = {} THEN 0 ELSE CHOOSE i \in hits : \A j \in hits : i <= j

_get_header_value(headers, header_name) ==
    IF HeaderIndex(headers, header_name) = 0 THEN None
    ELSE headers[HeaderIndex(headers, header_name)].value

\* re.match(r"^(.+?)\s*<(.+?)>$", s): the ends i of group 1 for which the rest
\* matches.  After group 1 the run of whitespace is taken whole (a shorter run
\* is followed by whitespace, not by "<"), and group 2 runs to the last ">".
SpaceRunEnd(s, i) ==
    LET stops == {k \in (i + 1)..Len(s) : ~IsSpace(s[k])}
    IN  IF stops = {} THEN Len(s)
        ELSE (CHOOSE k \in stops : \A j \in stops : k <= j) - 1

FromMatchEnds(s) ==
    {i \in 1..Len(s) :
        LET k == SpaceRunEnd(s, i)
        IN  /\ k + 3 <= Len(s)
            /\ s[k + 1] = "<"
            /\ s[Len(s)] = ">"}

_extract_sender_info(headers) ==
    LET from_header == IF HeaderIndex(headers, FromName) = 0 THEN <<>>
                       ELSE headers[HeaderIndex(headers, FromName)].value
        ends == FromMatchEnds(from_header)
    IN  IF ends # {}
        THEN LET i == CHOOSE e \in ends : \A f \in ends : e <= f
                 k == SpaceRunEnd(from_header, i)
             IN  [name    |-> StripSet(Strip(SubSeq(from_header, 1, i)), {"\""}),
                  address |-> Strip(SubSeq(from_header, k + 2, Len(from_header) - 1))]
        ELSE [name |-> Strip(from_header), address |-> Strip(from_header)]

----------------------------------------------------------------------------
(* The Subscription dataclass and the aggregation of one message. *)

Subscription(sender_email, sender_name) ==
    [sender_email       |-> sender_email,
     sender_name        |-> sender_name,
     subject_examples   |-> <<>>,
     message_ids        |-> <<>>,
     unsubscribe_links  |-> <<>>,
     unsubscribe_mailto |-> <<>>,
     email_count        |-> 0]

\* value or ""
OrEmpty(value) == IF value = None THEN <<>> ELSE value

\* position of key in the dict (a sequence of key/value entries), or 0
KeyIndex(subs, key) ==
    LET hits == {i \in 1..Len(subs) : subs[i].key = key}
    IN  IF hits = {} THEN 0 ELSE CHOOSE i \in hits : TRUE

\* mutant: only an empty header value is skipped
SkippedOnlyEmpty(list_unsub) == list_unsub = <<>>

\* if not list_unsub: continue
Skipped(list_unsub) == list_unsub = None \/ list_unsub = <<>>

\* mutant: the address is the key as it stands
SenderKeyCaseSensitive(from_email) == from_email

\* key = from_email.lower()
SenderKey(from_email) == Lower(from_email)

\* if key not in subscriptions: subscriptions[key] = Subscription(...)
WithSender(subs, key, from_email, from_name) ==
    IF KeyIndex(subs, key) # 0 THEN subs
    ELSE Append(subs, [key |-> key, value |-> Subscription(from_email, from_name)])

\* mutant: the count is set when the record is created and not incremented
AccumulateCountOnce(sub, subject, msg_id, signal) ==
    [sub EXCEPT !.subject_examples   = Append(@, subject),
                !.message_ids        = Append(@, msg_id),
                !.unsubscribe_links  = @ \o signal.links,
                !.unsubscribe_mailto = @ \o signal.mailtos,
                !.email_count        = 1]

\* mutant: the newest message goes to the front of the lists
AccumulatePrepend(sub, subject, msg_id, signal) ==
    [sub EXCEPT !.subject_examples   = <<subject>> \o @,
                !.message_ids        = <<msg_id>> \o @,
                !.unsubscribe_links  = @ \o signal.links,
                !.unsubscribe_mailto = @ \o signal.mailtos,
                !.email_count        = @ + 1]

\* the appends and the increment on sub = subscriptions[key]
Accumulate(sub, subject, msg_id, signal) ==
    [sub EXCEPT !.subject_examples   = Append(@, subject),
                !.message_ids        = Append(@, msg_id),
                !.unsubscribe_links  = @ \o signal.links,
                !.unsubscribe_mailto = @ \o signal.mailtos,
                !.email_count        = @ + 1]

\* the body of the for loop of list_subscriptions after the metadata fetch
Absorb(subs, msg_id, headers) ==
    LET list_unsub == _get_header_value(headers, ListUnsubscribeName)
    IN  IF Skipped(list_unsub) THEN subs
        ELSE LET sender  == _extract_sender_info(headers)
                 subject == OrEmpty(_get_header_value(headers, SubjectName))
                 signal  == _parse_unsubscribe_header(list_unsub)
                 key     == SenderKey(sender.address)
                 withKey == WithSender(subs, key, sender.address, sender.name)
                 at      == KeyIndex(withKey, key)
             IN  [withKey EXCEPT ![at].value =
                      Accumulate(@, subject, msg_id, signal)]

\* subscriptions.values()
Values(subs) == [i \in 1..Len(subs) |-> subs[i].value]

\* mutant: an element goes in front of the elements with an equal count
InsertBeforeTies(sorted, sub) ==
    LET before == {i \in 1..Len(sorted) : sorted[i].email_count > sub.email_count}
        n == Cardinality(before)
    IN  SubSeq(sorted, 1, n) \o <<sub>> \o SubSeq(sorted, n + 1, Len(sorted))

\* sorted(..., key=email_count, reverse=True) keeps the order of equal keys:
\* each element goes behind every element whose count is not smaller
InsertByCount(sorted, sub) ==
    LET before == {i \in 1..Len(sorted) : sorted[i].email_count >= sub.email_count}
        n == Cardinality(before)
    IN  SubSeq(sorted, 1, n) \o <<sub>> \o SubSeq(sorted, n + 1, Len(sorted))

RECURSIVE SortFrom(_, _)
SortFrom(sorted, rest) ==
    IF rest = <<>> THEN sorted
    ELSE SortFrom(InsertByCount(sorted, Head(rest)), Tail(rest))

SortedByCount(values) == SortFrom(<<>>, values)

\* the record search_emails appends for one message
SearchRecord(msg_id, headers) ==
    LET sender == _extract_sender_info(headers)
    IN  [id              |-> msg_id,
         from_name       |-> sender.name,
         from_email      |-> sender.address,
         subject         |-> OrEmpty(_get_header_value(headers, SubjectName)),
         date            |-> OrEmpty(_get_header_value(headers, DateName)),
         has_unsubscribe |-> _get_header_value(headers, ListUnsubscribeName) # None]

----------------------------------------------------------------------------
(* The mailbox: the header lists messages().get may return. *)

FromA == <<"A"," ","<","a",">">>
FromQuotedA == <<"\"","Z","\""," "," ","<","A",">">>
FromB == <<"b">>

UnsubBoth ==
    <<"<","h","t","t","p",":","/","/","u",">",",",
      "<","m","a","i","l","t","o",":","m",">">>
UnsubHttps == <<"<","h","t","t","p","s",":","/","/","v",">">>
UnsubFtp == <<"<","f","t","p",":","/","/","w",">">>

Header(name, value) == [name |-> name, value |-> value]

MailboxHeaders ==
    { <<Header(<<"F","r","o","m">>, FromA),
        Header(SubjectName, <<"s">>),
        Header(DateName, <<"d">>),
        Header(ListUnsubscribeName, UnsubBoth)>>,
      <<Header(<<"F","R","O","M">>, FromQuotedA),
        Header(<<"s","u","b","j","e","c","t">>, <<"t">>),
        Header(Lower(ListUnsubscribeName), UnsubHttps)>>,
      <<Header(<<"F","r","o","m">>, FromB),
        Header(ListUnsubscribeName, UnsubFtp)>>,
      <<Header(<<"F","r","o","m">>, FromA),
        Header(SubjectName, <<"s">>)>>,
      <<Header(<<"F","r","o","m">>, FromB),
        Header(ListUnsubscribeName, <<>>)>>,
      <<Header(ListUnsubscribeName, UnsubHttps)>> }

----------------------------------------------------------------------------
(* The pagination loop shared by list_subscriptions and search_emails. *)

Min(a, b) == IF a <= b THEN a ELSE b

\* the page size the loops never exceed
PageCap == 100

\* mutant: the loop is entered once more
LoopContinuesInclusive(p, m) == p <= m

\* while processed < max_results
LoopContinues(p, m) == p < m

\* mutant: the remaining budget is asked for as it stands
BatchSizeUncapped(p, m) == m - p

\* batch_size = min(100, max_results - processed)
BatchSize(p, m) == Min(PageCap, m - p)

\* mutant: an empty page does not leave the loop
PageIsEmptyNever(messages) == FALSE

\* if not messages: break
PageIsEmpty(messages) == messages = <<>>

\* mutant: the break comes one message late
BudgetReachedLate(p, m) == p > m

\* if processed >= max_results: break
BudgetReached(p, m) == p >= m

\* if not next_page_token: break   (0 stands for an absent token)
HasToken(token) == token # 0

\* the value of the return statement
ReturnValue(subs, res) ==
    IF op = "list_subscriptions" THEN SortedByCount(Values(subs)) ELSE res

\* the break out of the while loop and the return
Return(subs, res) ==
    /\ pc' = "done"
    /\ returned' = ReturnValue(subs, res)

\* mutant: the token of the response is not taken
AfterPageStaleToken(token, p, subs, res) ==
    /\ next_page_token' = next_page_token
    /\ IF HasToken(token) /\ LoopContinues(p, max_results)
       THEN pc' = "list" /\ returned' = returned
       ELSE Return(subs, res)

\* after the for loop: take the token, leave without one, else test the loop
AfterPage(token, p, subs, res) ==
    /\ next_page_token' = token
    /\ IF HasToken(token) /\ LoopContinues(p, max_results)
       THEN pc' = "list" /\ returned' = returned
       ELSE Return(subs, res)

\* the call: the locals are set, the while condition is tested for the first time
Call ==
    /\ op \in {"list_subscriptions", "search_emails"}
    /\ pc = "start"
    /\ IF LoopContinues(processed, max_results)
       THEN pc' = "list" /\ returned' = returned
       ELSE Return(subscriptions, results)
    /\ UNCHANGED <<op, scanVars, httpVars, orderVars, parseVars>>

\* one messages().list request and its response: size messages, token or none.
\* honoured: the mailbox returns no more messages than the request asked for.
\* counting: the requests are counted and every id and token is new; without,
\* the mailbox hands out the same ids and the same token again and again.
ListPage(honoured, counting) ==
    /\ op \in {"list_subscriptions", "search_emails"}
    /\ pc = "list"
    /\ \E size \in 0..MaxPage, more \in BOOLEAN :
         LET batch_size == BatchSize(processed, max_results)
             messages == [i \in 1..size |-> listed + i]
             token == IF more THEN nList + 1 ELSE 0
         IN  /\ honoured => size <= batch_size
             /\ nList' = IF counting THEN nList + 1 ELSE nList
             /\ lastBatch' = batch_size
             /\ lastReqToken' = next_page_token
             /\ listed' = IF counting THEN listed + size ELSE listed
             /\ respToken' = token
             /\ page' = messages
             /\ emptyPage' = (messages = <<>>)
             /\ IF PageIsEmpty(messages)
                THEN Return(subscriptions, results) /\ UNCHANGED next_page_token
                ELSE IF messages = <<>>
                     THEN AfterPage(token, processed, subscriptions, results)
                     ELSE pc' = "get" /\ UNCHANGED <<returned, next_page_token>>
    /\ UNCHANGED <<op, max_results, processed, subscriptions, results, nGet,
                   carriers, failed, httpVars, orderVars, parseVars>>

\* one iteration of the for loop of list_subscriptions: the metadata fetch of
\* the next message of the page, its aggregation, and what follows the loop
ListSubscriptionsGet(counting) ==
    /\ op = "list_subscriptions"
    /\ pc = "get"
    /\ counting => nGet < MaxFetch
    /\ \E headers \in MailboxHeaders :
      \E subs \in {Absorb(subscriptions, Head(page), headers)} :   \* the dict after the loop body
         LET msg_id == Head(page)
             counted == ~Skipped(_get_header_value(headers, ListUnsubscribeName))
             p == IF counted THEN processed + 1 ELSE processed
             break == counted /\ BudgetReached(p, max_results)
         IN  /\ nGet' = IF counting THEN nGet + 1 ELSE nGet
             /\ carriers' = IF _get_header_value(headers, ListUnsubscribeName) # None
                            THEN carriers \cup {msg_id} ELSE carriers
             /\ subscriptions' = subs
             /\ processed' = p
             /\ page' = Tail(page)
             /\ IF break \/ Tail(page) = <<>>
                THEN AfterPage(respToken, p, subs, results)
                ELSE UNCHANGED <<pc, returned, next_page_token>>
    /\ UNCHANGED <<op, max_results, respToken, results, nList, listed, lastBatch,
                   lastReqToken, emptyPage, failed, httpVars, orderVars, parseVars>>

\* one iteration of the for loop of search_emails
SearchEmailsGet(counting) ==
    /\ op = "search_emails"
    /\ pc = "get"
    /\ counting => nGet < MaxFetch
    /\ \E headers \in MailboxHeaders :
         LET msg_id == Head(page)
             res == Append(results, SearchRecord(msg_id, headers))
             p == processed + 1
         IN  /\ nGet' = IF counting THEN nGet + 1 ELSE nGet
             /\ carriers' = IF _get_header_value(headers, ListUnsubscribeName) # None
                            THEN carriers \cup {msg_id} ELSE carriers
             /\ results' = res
             /\ processed' = p
             /\ page' = Tail(page)
             /\ IF BudgetReached(p, max_results) \/ Tail(page) = <<>>
                THEN AfterPage(respToken, p, subscriptions, res)
                ELSE UNCHANGED <<pc, returned, next_page_token>>
    /\ UNCHANGED <<op, max_results, respToken, subscriptions, nList, listed,
                   lastBatch, lastReqToken, emptyPage, failed, httpVars, orderVars, parseVars>>

\* mutant: the failed call is issued again
RetryOnUpstreamError(at) == at

\* .execute() raises and neither loop has a handler: the exception leaves the
\* function, whatever the position at which it was raised
OnUpstreamError(at) == "raised"

\* a messages().list request that raises
ListFails ==
    /\ op \in {"list_subscriptions", "search_emails"}
    /\ pc = "list"
    /\ nList' = nList + 1
    /\ lastBatch' = BatchSize(processed, max_results)
    /\ lastReqToken' = next_page_token
    /\ failed' = TRUE
    /\ pc' = OnUpstreamError(pc)
    /\ UNCHANGED <<op, max_results, processed, next_page_token, page, respToken,
                   subscriptions, results, returned, nGet, listed, carriers,
                   emptyPage, httpVars, orderVars, parseVars>>

\* a messages().get request that raises
GetFails ==
    /\ op \in {"list_subscriptions", "search_emails"}
    /\ pc = "get"
    /\ nGet < MaxFetch
    /\ nGet' = nGet + 1
    /\ failed' = TRUE
    /\ pc' = OnUpstreamError(pc)
    /\ UNCHANGED <<op, max_results, processed, next_page_token, page, respToken,
                   subscriptions, results, returned, nList, listed, lastBatch,
                   lastReqToken, carriers, emptyPage, httpVars, orderVars, parseVars>>

----------------------------------------------------------------------------
(* unsubscribe_http and the desuscribirse tool. *)

\* keywords of unsubscribe_http
Keywords ==
    { <<"u","n","s","u","b","s","c","r","i","b","e","d">>,
      <<"r","e","m","o","v","e","d">>,
      <<"s","u","c","c","e","s","s","f","u","l","l","y"," ","u","n","s","u","b","s","c","r","i","b","e","d">>,
      <<"y","o","u"," ","h","a","v","e"," ","b","e","e","n"," ","u","n","s","u","b","s","c","r","i","b","e","d">>,
      <<"h","a","s"," ","b","e","e","n"," ","r","e","m","o","v","e","d">>,
      <<"o","p","t","e","d"," ","o","u","t">> }

\* the document between two tags: soup.get_text(separator=" ") joins the text
\* nodes, which the tags <...> delimit, with one space
RECURSIVE TextNodes(_, _, _)
TextNodes(text, i, node) ==
    IF i > Len(text)
    THEN IF node = <<>> THEN <<>> ELSE <<node>>
    ELSE IF text[i] = "<" /\ \E c \in (i + 1)..Len(text) : text[c] = ">"
         THEN LET c == CHOOSE d \in (i + 1)..Len(text) :
                          /\ text[d] = ">"
                          /\ \A e \in (i + 1)..(d - 1) : text[e] # ">"
              IN  (IF node = <<>> THEN <<>> ELSE <<node>>) \o TextNodes(text, c + 1, <<>>)
         ELSE TextNodes(text, i + 1, Append(node, text[i]))

RECURSIVE JoinWithSpace(_)
JoinWithSpace(nodes) ==
    IF nodes = <<>> THEN <<>>
    ELSE IF Len(nodes) = 1 THEN nodes[1]
    ELSE nodes[1] \o <<" ">> \o JoinWithSpace(Tail(nodes))

\* BeautifulSoup(resp.text, "html.parser").get_text(separator=" ")
VisibleText(text) == JoinWithSpace(TextNodes(text, 1, <<>>))

\* mutant: the texts are searched without .lower()
VerdictCaseSensitive(text) ==
    \E kw \in Keywords : Contains(VisibleText(text), kw) \/ Contains(text, kw)

\* any(kw in visible_text or kw in raw_text for kw in keywords)
Verdict(text) ==
    LET visible_text == Lower(VisibleText(text))
        raw_text == Lower(text)
    IN  \E kw \in Keywords : Contains(visible_text, kw) \/ Contains(raw_text, kw)

\* mutant: a response other than 200 is no success
ResponseVerdictOkOnly(resp) == resp.status = 200 /\ Verdict(resp.text)

\* what unsubscribe_http makes of a response: resp.text is read, resp.status_code
\* is not
ResponseVerdict(resp) == Verdict(resp.text)

\* what the transport can raise inside the try block: subclasses of Exception
TransportFailures == {"timeout", "connect_error", "tls_error", "decode_error"}

\* raised at the await and no subclass of Exception (asyncio.CancelledError)
Cancellations == {"cancelled"}

\* mutant: except httpx.TimeoutException
CaughtTimeoutOnly(kind) == kind = "timeout"

\* except Exception
Caught(kind) == kind \in TransportFailures

\* the argument of desuscribirse
Urls ==
    { <<"h","t","t","p",":","/","/","a">>,
      <<"h","t","t","p","s",":","/","/","a">>,
      <<"H","T","T","P",":","/","/","a">>,
      <<"H","t","t","p","s",":","/","/","a">>,
      <<"f","t","p",":","/","/","a">>,
      <<"m","a","i","l","t","o",":","a">>,
      <<"h","t","t","p",":","/","a">>,
      <<>> }

\* response bodies (resp.text)
Bodies ==
    { <<"o","k">>,
      <<"<","b",">","Y","o","u"," ","H","a","v","e"," ","B","e","e","n"," ","U","n","s","u","b","s","c","r","i","b","e","d","<","/","b",">">>,
      <<"<","i",">","o","p","t","e","d","<","/","i",">","o","u","t">>,
      <<"<","!","-","-","r","e","m","o","v","e","d","-","-",">","o","k">> }

Statuses == {200, 404, 500}

NoOutcome == [kind |-> "none", status |-> 0, text |-> <<>>]

Outcomes ==
    {[kind |-> k, status |-> 0, text |-> <<>>] : k \in TransportFailures \cup Cancellations}
    \cup {[kind |-> "response", status |-> st, text |-> b] : st \in Statuses, b \in Bodies}

\* mutant: startswith("http")
UrlAcceptedAnyHttp(u) == StartsWith(Lower(u), <<"h","t","t","p">>)

\* url_desuscripcion.lower().startswith(("http://", "https://"))
UrlAccepted(u) ==
    StartsWith(Lower(u), HttpPrefix) \/ StartsWith(Lower(u), HttpsPrefix)

\* desuscribirse up to its await: the URL is rejected, or unsubscribe_http is
\* called and issues client.get(url)
Desuscribirse ==
    /\ op = "desuscribirse"
    /\ pc = "start"
    /\ IF UrlAccepted(url)
       THEN /\ pc' = "await"
            /\ httpGets' = httpGets + 1
            /\ returned' = returned
       ELSE /\ pc' = "done"
            /\ httpGets' = httpGets
            /\ returned' = [ok |-> FALSE, error |-> "URL invalida", url |-> <<>>]
    /\ UNCHANGED <<op, scanVars, url, outcome, orderVars, parseVars>>

\* the await of client.get ends: a response, or an exception at the await
HttpAnswer ==
    /\ op = "desuscribirse"
    /\ pc = "await"
    /\ \E o \in Outcomes :
         /\ outcome' = o
         /\ IF o.kind = "response"
            THEN /\ pc' = "done"
                 /\ returned' = [ok |-> ResponseVerdict(o), error |-> "", url |-> url]
            ELSE IF Caught(o.kind)
                 THEN /\ pc' = "done"
                      /\ returned' = [ok |-> FALSE, error |-> "", url |-> url]
                 ELSE /\ pc' = "raised"
                      /\ returned' = returned
    /\ UNCHANGED <<op, scanVars, url, httpGets, orderVars, parseVars>>

----------------------------------------------------------------------------
(* Two arrival orders of the same examined messages (SpecOrder). *)

\* the messages of the scan, in the order of their ids
Arrivals ==
    UNION {[1..n -> MailboxHeaders] : n \in 0..MaxArrival}

\* the for-loop body of list_subscriptions on the next message of both orders
AbsorbBoth ==
    /\ op = "aggregate"
    /\ pc = "fold"
    /\ nGet < Len(arrival)
    /\ nGet' = nGet + 1
    /\ subscriptions' = Absorb(subscriptions, arrival[nGet + 1].id,
                               arrival[nGet + 1].headers)
    /\ subscriptionsB' = Absorb(subscriptionsB, arrivalB[nGet + 1].id,
                                arrivalB[nGet + 1].headers)
    /\ pc' = IF nGet + 1 = Len(arrival) THEN "done" ELSE "fold"
    /\ UNCHANGED <<op, max_results, processed, next_page_token, page, respToken,
                   results, returned, nList, listed, lastBatch, lastReqToken,
                   carriers, emptyPage, failed, httpVars, arrival, arrivalB,
                   parseVars>>

----------------------------------------------------------------------------
(* The two header parsers called on their own (SpecParse). *)

\* the characters From values are made of
FromAlphabet == {"A", " ", "<", ">", "\""}

FromValues == UNION {[1..n -> FromAlphabet] : n \in 0..MaxFromLen}

\* the header lists _extract_sender_info is called on: without a From header,
\* or with one
SenderHeaders ==
    {<<>>, <<Header(SubjectName, <<"s">>)>>}
    \cup {<<Header(SubjectName, <<"s">>), Header(<<"F","r","o","m">>, v)>> : v \in FromValues}

\* the pieces List-Unsubscribe values are made of: <...> tokens and the text
\* between them
UnsubTokens ==
    { <<"h","t","t","p",":","/","/","u">>,
      <<"h","t","t","p","s",":","/","/","v">>,
      <<"m","a","i","l","t","o",":","m">>,
      <<"f","t","p",":","/","/","w">>,
      <<"H","T","T","P",":","/","/","x">> }

UnsubPieces ==
    {[token |-> TRUE, text |-> t] : t \in UnsubTokens}
    \cup {[token |-> FALSE, text |-> <<",", " ">>]}

UnsubPieceLists == UNION {[1..n -> UnsubPieces] : n \in 0..MaxPieces}

\* the header value the pieces spell
RECURSIVE HeaderValue(_)
HeaderValue(pieces) ==
    IF pieces = <<>> THEN <<>>
    ELSE (IF Head(pieces).token THEN <<"<">> \o Head(pieces).text \o <<">">>
          ELSE Head(pieces).text) \o HeaderValue(Tail(pieces))

ExtractSenderInfo ==
    /\ op = "_extract_sender_info"
    /\ pc = "start"
    /\ pc' = "done"
    /\ returned' = _extract_sender_info(arg)
    /\ UNCHANGED <<op, scanVars, httpVars, orderVars, parseVars>>

ParseUnsubscribeHeader ==
    /\ op = "_parse_unsubscribe_header"
    /\ pc = "start"
    /\ pc' = "done"
    /\ returned' = _parse_unsubscribe_header(HeaderValue(arg))
    /\ UNCHANGED <<op, scanVars, httpVars, orderVars, parseVars>>

----------------------------------------------------------------------------
ScanIdle ==
    /\ processed = 0
    /\ next_page_token = 0
    /\ page = <<>>
    /\ respToken = 0
    /\ subscriptions = <<>>
    /\ results = <<>>
    /\ nList = 0
    /\ nGet = 0
    /\ listed = 0
    /\ lastBatch = 0
    /\ lastReqToken = 0
    /\ carriers = {}
    /\ emptyPage = FALSE
    /\ failed = FALSE

HttpIdle ==
    /\ httpGets = 0
    /\ outcome = NoOutcome

OrderIdle ==
    /\ arrival = <<>>
    /\ arrivalB = <<>>
    /\ subscriptionsB = <<>>

ParseIdle == arg = <<>>

\* one invocation of one of the three operations
Init ==
    /\ pc = "start"
    /\ returned = <<>>
    /\ ScanIdle
    /\ HttpIdle
    /\ OrderIdle
    /\ ParseIdle
    /\ \/ /\ op \in {"list_subscriptions", "search_emails"}
          /\ max_results \in ((-1)..MaxMaxResults) \cup {PageCap + 1}
          /\ url = <<>>
       \/ /\ op = "desuscribirse"
          /\ max_results = 0
          /\ url \in Urls

Next ==
    \/ Call
    \/ ListPage(FALSE, TRUE)
    \/ ListSubscriptionsGet(TRUE)
    \/ SearchEmailsGet(TRUE)
    \/ ListFails
    \/ GetFails
    \/ Desuscribirse
    \/ HttpAnswer

Spec == Init /\ [][Next]_vars

\* the same operations against a mailbox that honours maxResults
NextGmail ==
    \/ Call
    \/ ListPage(TRUE, TRUE)
    \/ ListSubscriptionsGet(TRUE)
    \/ SearchEmailsGet(TRUE)
    \/ ListFails
    \/ GetFails
    \/ Desuscribirse
    \/ HttpAnswer

SpecGmail == Init /\ [][NextGmail]_vars

\* the same messages aggregated in two arrival orders
InitOrder ==
    /\ op = "aggregate"
    /\ pc = "fold"
    /\ returned = <<>>
    /\ max_results = 0
    /\ url = <<>>
    /\ ScanIdle
    /\ HttpIdle
    /\ \E hs \in Arrivals :
         /\ arrival = [i \in 1..Len(hs) |-> [id |-> i, headers |-> hs[i]]]
         /\ \E f \in Permutations(1..Len(hs)) :
              arrivalB = [i \in 1..Len(hs) |-> [id |-> f[i], headers |-> hs[f[i]]]]
    /\ subscriptionsB = <<>>
    /\ ParseIdle

NextOrder == AbsorbBoth

SpecOrder == InitOrder /\ [][NextOrder]_vars

\* one scan of a mailbox that has the same page to give for ever, every call
\* of which returns
InitLive ==
    /\ pc = "start"
    /\ returned = <<>>
    /\ ScanIdle
    /\ HttpIdle
    /\ OrderIdle
    /\ ParseIdle
    /\ op \in {"list_subscriptions", "search_emails"}
    /\ max_results \in (-1)..MaxLiveResults
    /\ url = <<>>

NextLive ==
    \/ Call
    \/ ListPage(TRUE, FALSE)
    \/ ListSubscriptionsGet(FALSE)
    \/ SearchEmailsGet(FALSE)

SpecLive == InitLive /\ [][NextLive]_vars /\ WF_vars(NextLive)

\* one call of one of the two parsers
InitParse ==
    /\ pc = "start"
    /\ returned = <<>>
    /\ max_results = 0
    /\ url = <<>>
    /\ ScanIdle
    /\ HttpIdle
    /\ OrderIdle
    /\ \/ /\ op = "_extract_sender_info"
          /\ arg \in SenderHeaders
       \/ /\ op = "_parse_unsubscribe_header"
          /\ arg \in UnsubPieceLists

NextParse ==
    \/ ExtractSenderInfo
    \/ ParseUnsubscribeHeader

SpecParse == InitParse /\ [][NextParse]_vars

----------------------------------------------------------------------------
(* Properties. *)

Scans == {"list_subscriptions", "search_emails"}

\* C1: in list_subscriptions every fetched message uses one unit of the
\* max_results budget, so a scan with max_results >= 0 fetches the metadata
\* of at most max_results messages.
C1_FetchesWithinBudget ==
    (op = "list_subscriptions" /\ max_results >= 0) => nGet <= max_results

\* C2: the returned sequence holds the Subscriptions of the dict, sorted
\* non-increasing by email_count, and two Subscriptions with equal counts
\* keep the order in which their senders were first met (the ids of the
\* messages grow in scan order, so the first id of a record dates its sender).
C2_SortedStable ==
    (op = "list_subscriptions" /\ pc = "done") =>
        /\ Len(returned) = Len(subscriptions)
        /\ \A i \in 1..Len(subscriptions) :
              \E j \in 1..Len(returned) : returned[j] = subscriptions[i].value
        /\ \A i, j \in 1..Len(returned) :
              i < j =>
                /\ returned[i].email_count >= returned[j].email_count
                /\ returned[i].email_count = returned[j].email_count
                     => returned[i].message_ids[1] < returned[j].message_ids[1]

\* a returned list of three senders with equal counts, in the order in which
\* the scan met them: b first, a last
C2_Witness ==
    /\ op = "list_subscriptions"
    /\ pc = "done"
    /\ Len(returned) = 3
    /\ \A i, j \in 1..3 : returned[i].email_count = returned[j].email_count
    /\ returned[1].sender_email = <<"b">>
    /\ returned[3].sender_email = <<"a">>

\* a returned list in which the sender met second comes first
C2_Reordered ==
    /\ op = "list_subscriptions"
    /\ pc = "done"
    /\ Len(returned) = 2
    /\ returned[1].email_count = 2
    /\ returned[1].message_ids[1] > returned[2].message_ids[1]

\* C3: email_count equals the length of message_ids for every Subscription,
\* between the message-processing steps of a scan and in the returned list.
C3_CountIsLength ==
    op = "list_subscriptions" =>
        /\ \A i \in 1..Len(subscriptions) :
              subscriptions[i].value.email_count = Len(subscriptions[i].value.message_ids)
        /\ pc = "done" =>
              \A i \in 1..Len(returned) :
                 returned[i].email_count = Len(returned[i].message_ids)

\* between two fetches, a sender with two messages
C3_Witness ==
    /\ op = "list_subscriptions"
    /\ pc = "get"
    /\ \E i \in 1..Len(subscriptions) : subscriptions[i].value.email_count = 2

\* C4: once processed equals max_results neither scan issues another
\* metadata fetch or list request, and search_emails returns at most
\* max_results records.
C4_StopsAtMax ==
    /\ [][(op \in Scans /\ processed = max_results)
            => (nGet' = nGet /\ nList' = nList)]_vars
    /\ [](op = "search_emails" /\ pc = "done" /\ max_results >= 0
            => Len(returned) <= max_results)

\* the maximum was reached in the middle of a page that came with a
\* continuation token
C4_Witness ==
    /\ op = "search_emails"
    /\ max_results > 0
    /\ processed = max_results
    /\ pc = "done"
    /\ page # <<>>
    /\ respToken # 0
    /\ Len(returned) = max_results

\* C5: after a list response without messages neither scan issues another
\* request, whatever token the response carried, and the operation has
\* returned what it had accumulated.
C5_EmptyPageStops ==
    /\ [][emptyPage => (nGet' = nGet /\ nList' = nList)]_vars
    /\ [](emptyPage =>
            /\ pc = "done"
            /\ op = "search_emails" => returned = results
            /\ op = "list_subscriptions" =>
                  /\ Len(returned) = Len(subscriptions)
                  /\ \A i \in 1..Len(subscriptions) :
                        \E j \in 1..Len(returned) : returned[j] = subscriptions[i].value)

\* an empty page with a continuation token, below the maximum, after
\* messages were retained
C5_Witness ==
    /\ op = "list_subscriptions"
    /\ emptyPage
    /\ respToken # 0
    /\ 0 < processed
    /\ processed < max_results

\* C6: with max_results = 0 both scans issue no list request and no metadata
\* fetch and return an empty sequence.
C6_ZeroMax ==
    (op \in Scans /\ max_results = 0) =>
        /\ nList = 0
        /\ nGet = 0
        /\ pc \in {"start", "done"}
        /\ pc = "done" => returned = <<>>

C6_Witness ==
    /\ op = "search_emails"
    /\ max_results = 0
    /\ pc = "done"

\* C7: the fetch of a message without a List-Unsubscribe header leaves the
\* subscriptions dict unchanged, and every id in a message_ids list is the id
\* of a message that carried the header.
C7_NoHeaderNoChange ==
    /\ [][(op = "list_subscriptions" /\ nGet' = nGet + 1 /\ Head(page) \notin carriers')
            => subscriptions' = subscriptions]_vars
    /\ [](op = "list_subscriptions" =>
            \A i \in 1..Len(subscriptions) :
               \A k \in 1..Len(subscriptions[i].value.message_ids) :
                  subscriptions[i].value.message_ids[k] \in carriers)

\* a message without the header was fetched after a record existed
C7_Witness ==
    /\ op = "list_subscriptions"
    /\ subscriptions # <<>>
    /\ nGet >= 2
    /\ \E id \in 2..listed :
          /\ id \notin carriers
          /\ Len(page) < listed - id + 1
          /\ \E i \in 1..Len(subscriptions) :
                subscriptions[i].value.message_ids[1] < id

\* C8: when the transport fails (timeout, connection error, TLS error,
\* undecodable response) unsubscribe_http returns false, nothing is raised
\* to the caller, and client.get was called once.
C8_FailureIsFalse ==
    (op = "desuscribirse" /\ outcome.kind \in TransportFailures) =>
        /\ pc = "done"
        /\ returned.ok = FALSE
        /\ returned.url = url
        /\ httpGets = 1

C8_Witness ==
    /\ op = "desuscribirse"
    /\ outcome.kind = "tls_error"
    /\ pc = "done"
    /\ returned.ok = FALSE

\* C9, as stated: unsubscribe_http is called only for a URL that begins with
\* http:// or https://, and every other URL is answered with an error
\* without an HTTP request.
C9_LiteralPrefixOnly ==
    (op = "desuscribirse" /\ pc # "start") =>
        IF StartsWith(url, HttpPrefix) \/ StartsWith(url, HttpsPrefix)
        THEN httpGets = 1
        ELSE httpGets = 0 /\ pc = "done" /\ returned.ok = FALSE /\ returned.error # ""

\* C9, amended: unsubscribe_http is called only for a URL whose lowercased
\* text begins with http:// or https:// (the scheme is compared without
\* regard to case); every other URL is answered with ok = false and an error
\* message, without an HTTP request.
C9_HttpSchemeOnly ==
    (op = "desuscribirse" /\ pc # "start") =>
        IF StartsWith(Lower(url), HttpPrefix) \/ StartsWith(Lower(url), HttpsPrefix)
        THEN httpGets = 1
        ELSE httpGets = 0 /\ pc = "done" /\ returned.ok = FALSE /\ returned.error # ""

\* a URL of another scheme was rejected
C9_Witness ==
    /\ op = "desuscribirse"
    /\ StartsWith(url, MailtoPrefix)
    /\ pc = "done"
    /\ httpGets = 0
    /\ returned.ok = FALSE

\* the sender key of a message, as the aggregation derives it
KeyOfMessage(m) == Lower(_extract_sender_info(m.headers).address)

\* whether a message carries a usable List-Unsubscribe value
Contributes(m) ==
    LET v == _get_header_value(m.headers, ListUnsubscribeName)
    IN  v # None /\ v # <<>>

\* the contributing messages of one sender, in the order of arr
MessagesOf(arr, key) ==
    SelectSeq(arr, LAMBDA m : Contributes(m) /\ KeyOfMessage(m) = key)

IdsOf(arr, key) ==
    LET ms == MessagesOf(arr, key)
    IN  [i \in 1..Len(ms) |-> ms[i].id]

SubjectsOf(arr, key) ==
    LET ms == MessagesOf(arr, key)
    IN  [i \in 1..Len(ms) |-> OrEmpty(_get_header_value(ms[i].headers, SubjectName))]

\* email_count of a sender in a dict, 0 without a record
CountOf(subs, key) ==
    IF KeyIndex(subs, key) = 0 THEN 0 ELSE subs[KeyIndex(subs, key)].value.email_count

FollowsArrival(subs, arr) ==
    \A i \in 1..Len(subs) :
        /\ subs[i].value.message_ids = IdsOf(arr, subs[i].key)
        /\ subs[i].value.subject_examples = SubjectsOf(arr, subs[i].key)

\* C10: two arrival orders of the same examined messages give every sender
\* the same email_count, and message_ids and subject_examples of each
\* Subscription follow the arrival order of that sender's messages.
C10_CountsCommute ==
    (op = "aggregate" /\ pc = "done") =>
        /\ Len(subscriptions) = Len(subscriptionsB)
        /\ \A i \in 1..Len(subscriptions) :
              /\ subscriptions[i].value.email_count > 0
              /\ CountOf(subscriptionsB, subscriptions[i].key)
                    = subscriptions[i].value.email_count
        /\ \A i \in 1..Len(arrival) :
              Contributes(arrival[i]) =>
                 CountOf(subscriptions, KeyOfMessage(arrival[i])) > 0
        /\ FollowsArrival(subscriptions, arrival)
        /\ FollowsArrival(subscriptionsB, arrivalB)

\* the two orders gave a sender the same count and different lists
C10_Witness ==
    /\ op = "aggregate"
    /\ pc = "done"
    /\ \E i \in 1..Len(subscriptions), j \in 1..Len(subscriptionsB) :
          /\ subscriptions[i].key = subscriptionsB[j].key
          /\ subscriptions[i].value.email_count = subscriptionsB[j].value.email_count
          /\ subscriptions[i].value.message_ids # subscriptionsB[j].value.message_ids
          /\ subscriptions[i].value.subject_examples
                # subscriptionsB[j].value.subject_examples

\* C11: when a list request or a metadata fetch of a scan fails, the scan
\* issues no further request (the failed call is not issued again), returns
\* nothing, and the failure reaches the caller.
C11_FailurePropagates ==
    /\ [][(op \in Scans /\ failed) => (nList' = nList /\ nGet' = nGet)]_vars
    /\ []((op \in Scans /\ failed) => (pc = "raised" /\ returned = <<>>))

\* a metadata fetch failed after a message had been retained
C11_Witness ==
    /\ op = "list_subscriptions"
    /\ failed
    /\ pc = "raised"
    /\ page # <<>>
    /\ subscriptions # <<>>
    /\ returned = <<>>

\* C12: the first list request of a scan carries no token, every later one
\* carries the token of the response before it, which had one, and no
\* message of a page is left to fetch when the next list request is issued.
C12_SequentialPages ==
    [][(op \in Scans /\ nList' = nList + 1) =>
          /\ page = <<>>
          /\ nList = 0 => lastReqToken' = 0
          /\ nList > 0 => (respToken # 0 /\ lastReqToken' = respToken)]_vars

\* the third list request, made with the token of the second response, after
\* the messages of both pages were fetched
C12_Witness ==
    /\ op \in Scans
    /\ nList = 3
    /\ lastReqToken = 2
    /\ nGet >= 2

\* the messages absorbed so far
Absorbed == SubSeq(arrival, 1, nGet)

\* the contributing messages whose From address is email up to letter case
SameSender(arr, email) ==
    SelectSeq(arr, LAMBDA m : Contributes(m)
                     /\ Lower(_extract_sender_info(m.headers).address) = Lower(email))

\* C13: at every point of a scan there is exactly one Subscription for each
\* lowercased sender address that contributed, addresses that differ only in
\* letter case share it, and its sender_email and sender_name are those of
\* the first contributing message, whatever came later.
C13_OneRecordPerSender ==
    op = "aggregate" =>
        /\ \A i \in 1..Len(Absorbed) :
              Contributes(Absorbed[i]) =>
                 Cardinality({j \in 1..Len(subscriptions) :
                     Lower(subscriptions[j].value.sender_email)
                        = Lower(_extract_sender_info(Absorbed[i].headers).address)}) = 1
        /\ \A j \in 1..Len(subscriptions) :
              LET ms == SameSender(Absorbed, subscriptions[j].value.sender_email)
                  first == _extract_sender_info(ms[1].headers)
              IN  /\ ms # <<>>
                  /\ subscriptions[j].value.sender_email = first.address
                  /\ subscriptions[j].value.sender_name = first.name

\* a record created by "Z" <A> that later took a message of A <a>
C13_Witness ==
    /\ op = "aggregate"
    /\ pc = "done"
    /\ \E j \in 1..Len(subscriptions) :
          /\ subscriptions[j].value.sender_email = <<"A">>
          /\ subscriptions[j].value.sender_name = <<"Z">>
          /\ subscriptions[j].value.email_count >= 2
          /\ \E i \in 2..Len(arrival) :
                /\ Contributes(arrival[i])
                /\ _extract_sender_info(arrival[i].headers) = [name |-> <<"A">>, address |-> <<"a">>]

\* C14: for a received response the verdict is true exactly when one of the
\* six keywords occurs in the lowercased visible text or in the lowercased
\* raw body; "You have been unsubscribed" in any casing gives true, and a
\* 200 page without a keyword gives false.
C14_VerdictIsKeywordHit ==
    (op = "desuscribirse" /\ pc = "done" /\ outcome.kind = "response") =>
        /\ Cardinality(Keywords) = 6
        /\ returned.ok =
              (\E kw \in Keywords :
                  \/ Contains(Lower(VisibleText(outcome.text)), kw)
                  \/ Contains(Lower(outcome.text), kw))
        /\ Contains(Lower(outcome.text),
                    <<"y","o","u"," ","h","a","v","e"," ","b","e","e","n"," ",
                      "u","n","s","u","b","s","c","r","i","b","e","d">>)
              => returned.ok
        /\ (outcome.status = 200 /\ outcome.text = <<"o","k">>) => ~returned.ok

\* a page that says You Have Been Unsubscribed in mixed case was taken for a
\* success
C14_Witness ==
    /\ op = "desuscribirse"
    /\ pc = "done"
    /\ outcome.kind = "response"
    /\ Contains(outcome.text, <<"Y","o","u"," ","H","a","v","e">>)
    /\ returned.ok = TRUE

\* the From value _extract_sender_info was called on, None without a From
\* header
FromValueOf(headers) == _get_header_value(headers, FromName)

\* Name <address>: a display name, then an address between "<" and the final
\* ">" that holds no angle bracket itself
NameAddressForm(v) ==
    /\ Len(v) >= 3
    /\ v[Len(v)] = ">"
    /\ \E j \in 2..(Len(v) - 2) :
          /\ v[j] = "<"
          /\ \A k \in (j + 1)..(Len(v) - 1) : v[k] \notin {"<", ">"}

Surrounded(s, chars) == s # <<>> /\ (s[1] \in chars \/ s[Len(s)] \in chars)

\* C15: for a From value of the form Name <address> the name comes back
\* without surrounding whitespace or double quotes and the address without
\* angle brackets; a value the pattern does not match comes back trimmed as
\* both; without a From header both are empty.
C15_SenderInfoWellFormed ==
    (op = "_extract_sender_info" /\ pc = "done") =>
        LET v == FromValueOf(arg)
        IN  /\ v = None => returned = [name |-> <<>>, address |-> <<>>]
            /\ (v # None /\ NameAddressForm(v)) =>
                  /\ ~Surrounded(returned.name, {" ", "\t", "\""})
                  /\ \A k \in 1..Len(returned.address) :
                        returned.address[k] \notin {"<", ">"}
            /\ (v # None /\ FromMatchEnds(v) = {}) =>
                  returned = [name |-> Strip(v), address |-> Strip(v)]

\* C15, the address alone: it holds no angle bracket.
C15_AddressWithoutBrackets ==
    (op = "_extract_sender_info" /\ pc = "done"
        /\ FromValueOf(arg) # None /\ NameAddressForm(FromValueOf(arg))) =>
        \A k \in 1..Len(returned.address) : returned.address[k] \notin {"<", ">"}

\* C15, the name alone: no whitespace and no double quote around it.
C15_NameWithoutSurroundings ==
    (op = "_extract_sender_info" /\ pc = "done"
        /\ FromValueOf(arg) # None /\ NameAddressForm(FromValueOf(arg))) =>
        ~Surrounded(returned.name, {" ", "\t", "\""})

\* C15, the two other cases: no match, and no From header.
C15_Fallbacks ==
    (op = "_extract_sender_info" /\ pc = "done") =>
        LET v == FromValueOf(arg)
        IN  /\ v = None => returned = [name |-> <<>>, address |-> <<>>]
            /\ (v # None /\ FromMatchEnds(v) = {}) =>
                  returned = [name |-> Strip(v), address |-> Strip(v)]

\* C16: every list request asks for min(100, max_results - processed)
\* messages, a number between 1 and 100.
C16_PageSizeInRange ==
    [][(op \in Scans /\ nList' = nList + 1) =>
          /\ lastBatch' = (IF max_results - processed < 100
                           THEN max_results - processed ELSE 100)
          /\ lastBatch' >= 1
          /\ lastBatch' <= 100]_vars

\* a second list request of a scan that may still take more than 100
\* messages: 100 are asked for
C16_Witness ==
    /\ op \in Scans
    /\ max_results - processed >= 100
    /\ processed > 0
    /\ nList = 2
    /\ lastBatch = 100

\* the <...> tokens of the header value, in their order of appearance
TokensOf(pieces) ==
    LET ts == SelectSeq(pieces, LAMBDA q : q.token)
    IN  [i \in 1..Len(ts) |-> ts[i].text]

\* C17: of the k tokens of a List-Unsubscribe value, those that start with
\* http:// or https:// make up links, those that start with mailto: make up
\* mailtos, both in their order of appearance, and the others are dropped, so
\* that the two lists hold at most k entries together.
C17_TokensByScheme ==
    (op = "_parse_unsubscribe_header" /\ pc = "done") =>
        LET tokens == TokensOf(arg)
        IN  /\ Len(returned.links) + Len(returned.mailtos) <= Len(tokens)
            /\ returned.links =
                  SelectSeq(tokens, LAMBDA t : \/ StartsWith(t, <<"h","t","t","p",":","/","/">>)
                                               \/ StartsWith(t, <<"h","t","t","p","s",":","/","/">>))
            /\ returned.mailtos =
                  SelectSeq(tokens, LAMBDA t : StartsWith(t, <<"m","a","i","l","t","o",":">>))

\* three tokens: the https link came back before the http link and the third
\* token was dropped
C17_Witness ==
    /\ op = "_parse_unsubscribe_header"
    /\ pc = "done"
    /\ Len(TokensOf(arg)) = 3
    /\ returned.links = << <<"h","t","t","p","s",":","/","/","v">>,
                           <<"h","t","t","p",":","/","/","u">> >>
    /\ returned.mailtos = <<>>

\* C18: a scan with a finite max_results returns, whatever the mailbox has
\* to give, as long as every call to it returns.
C18_EventuallyReturns == (op \in Scans) ~> (pc = "done")

\* C18 for search_emails alone.
C18_SearchReturns == (op = "search_emails") ~> (pc = "done")

\* sum of email_count over the records of a dict
RECURSIVE SumOfCounts(_)
SumOfCounts(subs) ==
    IF subs = <<>> THEN 0
    ELSE Head(subs).value.email_count + SumOfCounts(Tail(subs))

\* C19: in list_subscriptions, processed equals the sum of email_count over
\* all Subscriptions at every point between two messages, and that sum
\* never exceeds a max_results that is not negative.
C19_ProcessedIsSumOfCounts ==
    op = "list_subscriptions" =>
        /\ processed = SumOfCounts(subscriptions)
        /\ max_results >= 0 => SumOfCounts(subscriptions) <= max_results

\* the budget of three is used up by two senders, one of them with two
\* messages
C19_Witness ==
    /\ op = "list_subscriptions"
    /\ max_results = 3
    /\ processed = 3
    /\ Len(subscriptions) = 2
    /\ \E i \in 1..2 : subscriptions[i].value.email_count = 2

\* the verdict each body gets
BodyVerdict(text) == text # <<"o","k">>

\* C20: the verdict of unsubscribe_http is a function of the body alone: a
\* body gets the same verdict with every status code it arrives with.
C20_StatusBlind ==
    (op = "desuscribirse" /\ pc = "done" /\ outcome.kind = "response") =>
        /\ outcome.status \in Statuses
        /\ returned.ok = BodyVerdict(outcome.text)

\* a 500 response whose body holds a keyword was taken for a success
C20_Witness ==
    /\ op = "desuscribirse"
    /\ pc = "done"
    /\ outcome.kind = "response"
    /\ outcome.status = 500
    /\ returned.ok = TRUE

====
